---- MODULE Spec2Model ----
(***************************************************************************)
(* Model of src/script.js: the multi-field risk query of                   *)
(* CryptographicProofSystem (candidate generation, internal-conflict       *)
(* detection, classification and the receipts it returns), and the query   *)
(* handler of the page with its two audit logs, its progress indicator    *)
(* and window.currentQueryData; the legacy email-only query                *)
(* performRiskQuery; and dateToQuarter.                                    *)
(*                                                                         *)
(* JavaScript values: a missing property reads as Undefined; "" and        *)
(* Undefined are the falsy strings.  An object is a record whose DOMAIN is *)
(* the set of its own properties.  An array is a sequence.                 *)
(***************************************************************************)
EXTENDS Integers, Sequences, FiniteSets, TLC

VARIABLES
    mapleCEX_HashDatabase,  \* the record table, as Object.entries lists it
    userData,               \* the query handed to performMultiFieldRiskQuery
    pc,                     \* position of the single call of the classifier runs
    outcome,                \* what that call produced: a receipt or an exception
    clock,                  \* Date.now()
    calls,                  \* the handleUserQuery invocations, in submission order
    queryAuditLog,          \* partner-side audit log, newest first
    complianceAuditLog,     \* compliance audit log, newest first
    dateString,             \* the argument of dateToQuarter
    timezoneOffset,         \* hours the local time of the environment is ahead of UTC
    currentQueryData,       \* window.currentQueryData: the query the results panel shows
    progressIndicator,      \* the status text, the 'processing' class and the active steps
    timers                  \* the pending 3000 ms timers of displayProofReceipt, oldest first

vars == <<mapleCEX_HashDatabase, userData, pc, outcome, clock, calls,
          queryAuditLog, complianceAuditLog, dateString, timezoneOffset,
          currentQueryData, progressIndicator, timers>>

----------------------------------------------------------------------------
(* Bounds of the model *)

\* longest table of the classifier runs
MaxRecords == 2
\* queries submitted in one run of the page
MaxQueries == 2
\* largest clock value
MaxClock == 2

----------------------------------------------------------------------------
(* JavaScript strings *)

Undefined == "<undefined>"

\* ToBoolean on a string or a missing value
Truthy(v) == v # "" /\ v # Undefined

\* a property read: Undefined when the object has no such property
Prop(obj, k) == IF k \in DOMAIN obj THEN obj[k] ELSE Undefined

\* String.prototype.toLowerCase on the strings of the model
toLowerCase(s) ==
    CASE s = "United States" -> "united states"
      [] s = "Mexico"        -> "mexico"
      [] s = "Passport"      -> "passport"
      [] s = "PASSPORT"      -> "passport"
      [] s = "National ID"   -> "national id"
      [] s = "United Kingdom" -> "united kingdom"
      [] OTHER               -> s

\* Array.prototype.includes
includes(arr, x) == \E i \in 1..Len(arr) : arr[i] = x

\* the digest of a message: the model keeps the message, so that two digests
\* are equal exactly when the messages are
sha256(message) == <<"sha256", message>>

----------------------------------------------------------------------------
(* Dates: new Date(dateString) and the local-time getters of Date *)

\* an ISO date string "Y-M-DTh:mm:00Z", by its fields
DateStringOf(y, m, d, h) == [year |-> y, month |-> m, day |-> d, hour |-> h]

\* no date: exact_flagged_date of a record that was never flagged
NoDate == DateStringOf(0, 1, 1, 0)

isLeapYear(y) == (y % 4 = 0 /\ y % 100 # 0) \/ y % 400 = 0

daysInMonth(y, m) ==
    IF m = 2 THEN (IF isLeapYear(y) THEN 29 ELSE 28)
    ELSE IF m \in {4, 6, 9, 11} THEN 30 ELSE 31

\* the calendar day before and after a day
previousDay(d) ==
    IF d.day > 1 THEN [d EXCEPT !.day = d.day - 1]
    ELSE IF d.month > 1
         THEN [d EXCEPT !.month = d.month - 1,
                        !.day = daysInMonth(d.year, d.month - 1)]
         ELSE [d EXCEPT !.year = d.year - 1, !.month = 12, !.day = 31]

nextDay(d) ==
    IF d.day < daysInMonth(d.year, d.month) THEN [d EXCEPT !.day = d.day + 1]
    ELSE IF d.month < 12
         THEN [d EXCEPT !.month = d.month + 1, !.day = 1]
         ELSE [d EXCEPT !.year = d.year + 1, !.month = 1, !.day = 1]

\* the local date and hour of the instant a "...Z" string names, in an
\* environment whose local time is offset hours ahead of UTC (-12 .. 14)
localTime(d, offset) ==
    LET h == d.hour + offset
    IN  IF h < 0 THEN [previousDay(d) EXCEPT !.hour = h + 24]
        ELSE IF h >= 24 THEN [nextDay(d) EXCEPT !.hour = h - 24]
        ELSE [d EXCEPT !.hour = h]

\* Date.prototype.getFullYear and getMonth (0-based) read the local time
getFullYear(d, offset) == localTime(d, offset).year
getMonth(d, offset) == localTime(d, offset).month - 1

\* dateToQuarter: the template string `${quarter} ${year}`, by its two parts
dateToQuarter(d, offset) ==
    LET year == getFullYear(d, offset)
        month == getMonth(d, offset) + 1
        quarter == IF month <= 3 THEN "Q1"
                   ELSE IF month <= 6 THEN "Q2"
                   ELSE IF month <= 9 THEN "Q3"
                   ELSE "Q4"
    IN  <<quarter, year>>

----------------------------------------------------------------------------
(* The values the tables and the queries are built from *)

Emails == {"alex.chen@gmail.com", "different-user@example.com"}
Phones == {"+1-555-0123", "+1-555-9999"}
RecordCountries == {"United States", "Mexico"}
RecordDocuments ==
    { <<"Passport", "US123456789">>, <<"National ID", "MX999888777">> }

\* the identity sub-record of a table entry; a record may have been entered
\* without an email
UserDataSet ==
    { [email |-> e, phone |-> p, country |-> c,
       document_type |-> d[1], document_number |-> d[2]] :
        e \in Emails, p \in Phones,
        c \in RecordCountries, d \in RecordDocuments }
    \cup
    { [email |-> "", phone |-> p, country |-> "United States",
       document_type |-> d[1], document_number |-> d[2]] :
        p \in Phones, d \in RecordDocuments }

\* the risk profile kept with an identity: the holders of the passport that
\* was reported stolen are flagged, the others are clean
FlaggedProfile ==
    [risk_tags |-> <<"Velocity_Withdrawals", "Suspicious_Patterns">>,
     flagged_quarter |-> "Q4 2023", status |-> "BANNED",
     internal_case_id |-> "RISK-2023-1247"]

CleanProfile ==
    [risk_tags |-> <<>>,
     flagged_quarter |-> "null", status |-> "CLEAN",
     internal_case_id |-> "CLEAN-2024-0001"]

ProfileOf(ud) ==
    IF ud.document_number = "US123456789" THEN FlaggedProfile ELSE CleanProfile

RiskDataOf(ud, pr) == [user_data |-> ud] @@ pr

\* a table value without the identity sub-record
NoUserDataRecord == FlaggedProfile

\* the table values of the classifier runs
RiskRecords ==
    { RiskDataOf(ud, ProfileOf(ud)) : ud \in UserDataSet } \cup {NoUserDataRecord}

\* the queries: every subset of the five form fields; country and document
\* type in lower case, as the form sends them
QueryEmails == {"", "alex.chen@gmail.com"}
QueryPhones == {"", "+1-555-0123"}
QueryCountries == {"", "united states"}
QueryDocTypes == {"", "passport"}
QueryDocNumbers == {"", "US123456789"}

QuerySet ==
    { [email |-> e, phone |-> p, country |-> c, doc_type |-> t, doc_number |-> n] :
        e \in QueryEmails, p \in QueryPhones, c \in QueryCountries,
        t \in QueryDocTypes, n \in QueryDocNumbers }

\* the table as Object.entries lists it: entry i has key i
EntriesOf(recs) ==
    [i \in 1..Len(recs) |-> [hash |-> <<"key", i>>, riskData |-> recs[i]]]

SeqsUpTo(S, n) == UNION { [1..k -> S] : k \in 0..n }

----------------------------------------------------------------------------
(* CryptographicProofSystem: candidate generation *)

\* countLogicalFields with the two document properties counted one by one
countLogicalFields_PerProperty(ud) ==
    Cardinality({ k \in DOMAIN ud : Truthy(ud[k]) })

\* countLogicalFields: document type and number count once, and only together
countLogicalFields(ud) ==
    (IF Truthy(Prop(ud, "email")) THEN 1 ELSE 0)
  + (IF Truthy(Prop(ud, "phone")) THEN 1 ELSE 0)
  + (IF Truthy(Prop(ud, "country")) THEN 1 ELSE 0)
  + (IF Truthy(Prop(ud, "doc_type")) /\ Truthy(Prop(ud, "doc_number")) THEN 1 ELSE 0)

\* the field checks with the document compared on its number alone
fieldMatchesOf_NumberOnly(ud, riskData) ==
    LET rec == riskData.user_data
    IN  (IF Truthy(Prop(ud, "email")) /\ Prop(rec, "email") = Prop(ud, "email")
         THEN <<"email">> ELSE <<>>)
     \o (IF Truthy(Prop(ud, "phone")) /\ Prop(rec, "phone") = Prop(ud, "phone")
         THEN <<"phone">> ELSE <<>>)
     \o (IF Truthy(Prop(ud, "country")) /\ Truthy(Prop(rec, "country"))
            /\ toLowerCase(Prop(rec, "country")) = toLowerCase(Prop(ud, "country"))
         THEN <<"country">> ELSE <<>>)
     \o (IF Truthy(Prop(ud, "doc_number"))
            /\ Prop(rec, "document_number") = Prop(ud, "doc_number")
         THEN <<"document">> ELSE <<>>)

\* the field checks with the document types compared as they are written
fieldMatchesOf_CaseSensitive(ud, riskData) ==
    LET rec == riskData.user_data
    IN  (IF Truthy(Prop(ud, "email")) /\ Prop(rec, "email") = Prop(ud, "email")
         THEN <<"email">> ELSE <<>>)
     \o (IF Truthy(Prop(ud, "phone")) /\ Prop(rec, "phone") = Prop(ud, "phone")
         THEN <<"phone">> ELSE <<>>)
     \o (IF Truthy(Prop(ud, "country")) /\ Truthy(Prop(rec, "country"))
            /\ toLowerCase(Prop(rec, "country")) = toLowerCase(Prop(ud, "country"))
         THEN <<"country">> ELSE <<>>)
     \o (IF Truthy(Prop(ud, "doc_type")) /\ Truthy(Prop(ud, "doc_number"))
            /\ Truthy(Prop(rec, "document_type")) /\ Truthy(Prop(rec, "document_number"))
            /\ Prop(rec, "document_type") = Prop(ud, "doc_type")
            /\ Prop(rec, "document_number") = Prop(ud, "doc_number")
         THEN <<"document">> ELSE <<>>)

\* the four field checks of the loop body, in the order they push
fieldMatchesOf(ud, riskData) ==
    LET rec == riskData.user_data
    IN  (IF Truthy(Prop(ud, "email")) /\ Prop(rec, "email") = Prop(ud, "email")
         THEN <<"email">> ELSE <<>>)
     \o (IF Truthy(Prop(ud, "phone")) /\ Prop(rec, "phone") = Prop(ud, "phone")
         THEN <<"phone">> ELSE <<>>)
     \o (IF Truthy(Prop(ud, "country")) /\ Truthy(Prop(rec, "country"))
            /\ toLowerCase(Prop(rec, "country")) = toLowerCase(Prop(ud, "country"))
         THEN <<"country">> ELSE <<>>)
     \o (IF Truthy(Prop(ud, "doc_type")) /\ Truthy(Prop(ud, "doc_number"))
            /\ Truthy(Prop(rec, "document_type")) /\ Truthy(Prop(rec, "document_number"))
            /\ toLowerCase(Prop(rec, "document_type")) = toLowerCase(Prop(ud, "doc_type"))
            /\ Prop(rec, "document_number") = Prop(ud, "doc_number")
         THEN <<"document">> ELSE <<>>)

\* detectInternalConflicts: the three checks the code makes
detectInternalConflicts(ud, riskData, matchedFields) ==
    LET rec == riskData.user_data
    IN  /\ Len(matchedFields) > 0
        /\ \/ /\ Truthy(Prop(ud, "email")) /\ Truthy(Prop(ud, "phone"))
              /\ includes(matchedFields, "email")
              /\ Truthy(Prop(rec, "phone"))
              /\ Prop(rec, "phone") # Prop(ud, "phone")
           \/ /\ Truthy(Prop(ud, "phone")) /\ Truthy(Prop(ud, "email"))
              /\ includes(matchedFields, "phone")
              /\ Truthy(Prop(rec, "email"))
              /\ Prop(rec, "email") # Prop(ud, "email")
           \/ /\ Truthy(Prop(ud, "doc_type")) /\ Truthy(Prop(ud, "doc_number"))
              /\ Truthy(Prop(ud, "email"))
              /\ includes(matchedFields, "document")
              /\ Truthy(Prop(rec, "email"))
              /\ Prop(rec, "email") # Prop(ud, "email")

\* the object pushed on potentialMatches for one table entry
matchOf(ud, entry) ==
    LET fm == fieldMatchesOf(ud, entry.riskData)
    IN  [hash |-> entry.hash, riskData |-> entry.riskData,
         matchedFields |-> fm, conflictingFields |-> <<>>,
         matchStrength |-> Len(fm),
         hasConflicts |-> detectInternalConflicts(ud, entry.riskData, fm)]

\* the loop body without the test fieldMatches.length > 0
loopBody_PushAll(acc, ud, entry) ==
    IF "user_data" \notin DOMAIN entry.riskData THEN acc
    ELSE Append(acc, matchOf(ud, entry))

\* one turn of the for loop of performMultiFieldRiskQuery: an entry without
\* user_data is passed over (continue), an entry with no matched field is not
\* pushed
loopBody(acc, ud, entry) ==
    IF "user_data" \notin DOMAIN entry.riskData THEN acc
    ELSE IF Len(fieldMatchesOf(ud, entry.riskData)) > 0
         THEN Append(acc, matchOf(ud, entry))
         ELSE acc

\* the loop leaving at the first entry without user_data (break for continue)
RECURSIVE collectFrom_Break(_, _, _, _)
collectFrom_Break(acc, ud, table, i) ==
    IF i > Len(table) THEN acc
    ELSE IF "user_data" \notin DOMAIN table[i].riskData THEN acc
    ELSE collectFrom_Break(loopBody(acc, ud, table[i]), ud, table, i + 1)

RECURSIVE collectFrom(_, _, _, _)
collectFrom(acc, ud, table, i) ==
    IF i > Len(table) THEN acc
    ELSE collectFrom(loopBody(acc, ud, table[i]), ud, table, i + 1)

\* potentialMatches when the loop is done
potentialMatchesOf(ud, table) == collectFrom(<<>>, ud, table, 1)

\* an insertion that puts a candidate before the earlier ones of its strength
RECURSIVE insertByStrength_Unstable(_, _)
insertByStrength_Unstable(sorted, m) ==
    IF sorted = <<>> THEN <<m>>
    ELSE IF Head(sorted).matchStrength > m.matchStrength
         THEN <<Head(sorted)>> \o insertByStrength_Unstable(Tail(sorted), m)
         ELSE <<m>> \o sorted

\* potentialMatches.sort((a, b) => b.matchStrength - a.matchStrength): stable,
\* strongest first
RECURSIVE insertByStrength(_, _)
insertByStrength(sorted, m) ==
    IF sorted = <<>> THEN <<m>>
    ELSE IF Head(sorted).matchStrength >= m.matchStrength
         THEN <<Head(sorted)>> \o insertByStrength(Tail(sorted), m)
         ELSE <<m>> \o sorted

RECURSIVE sortByStrength(_)
sortByStrength(ms) ==
    IF ms = <<>> THEN <<>>
    ELSE insertByStrength(sortByStrength(SubSeq(ms, 1, Len(ms) - 1)), ms[Len(ms)])

----------------------------------------------------------------------------
(* CryptographicProofSystem: the receipts.  t is the reading of the clock   *)
(* the receipt takes; a call either returns a receipt or throws.           *)

Return(receipt) == [kind |-> "return", receipt |-> receipt]
Throw(error) == [kind |-> "throw", error |-> error]

RegulationCompliance == <<"BSA", "KYC", "OFAC">>

\* Object.keys(originalUserData).filter(key => originalUserData[key])
KeyOrder == <<"email", "phone", "country", "doc_type", "doc_number">>
searchedFields(ud) ==
    SelectSeq(KeyOrder, LAMBDA k : k \in DOMAIN ud /\ Truthy(ud[k]))

generateConflictedMatchReceipt(match, ud, t) ==
    Return([provider |-> "MapleCEX",
            query_hash |-> match.hash,
            timestamp |-> t,
            result |-> [match_found |-> FALSE,
                        match_quality |-> "CONFLICTED",
                        matched_fields |-> match.matchedFields,
                        conflicted_fields |-> match.conflictingFields,
                        reason |-> "Data inconsistency detected"],
            compliance |-> [query_id |-> <<"QUERY-", t>>,
                            auditable |-> TRUE,
                            regulation_compliance |-> RegulationCompliance,
                            security_flag |-> "POTENTIAL_FRAUD_INDICATOR"],
            signature |-> sha256([match |-> match.matchedFields,
                                  conflicts |-> match.conflictingFields,
                                  timestamp |-> t])])

\* the timestamp is read before the query is hashed, Date.now() after it
generateAmbiguousMatchReceipt(matches, ud, t, tAfter) ==
    Return([provider |-> "MapleCEX",
            query_hash |-> sha256(ud),
            timestamp |-> t,
            result |-> [match_found |-> FALSE,
                        match_quality |-> "AMBIGUOUS",
                        potential_matches |-> Len(matches),
                        reason |-> "Multiple users match different provided fields"],
            compliance |-> [query_id |-> <<"QUERY-", tAfter>>,
                            auditable |-> TRUE,
                            regulation_compliance |-> RegulationCompliance,
                            security_flag |-> "CROSS_CONTAMINATION_DETECTED"],
            signature |-> sha256([ambiguous |-> TRUE, count |-> Len(matches),
                                  timestamp |-> t])])

\* a partial receipt that puts the time of the check into the result
generatePartialMatchReceipt_Stamped(match, ud, matchType, t) ==
    Return([provider |-> "MapleCEX",
            query_hash |-> match.hash,
            timestamp |-> t,
            result |-> [match_found |-> TRUE,
                        match_quality |-> IF matchType = "single_field"
                                          THEN "SINGLE_FIELD" ELSE "PARTIAL_FIELDS",
                        risk_tags |-> match.riskData.risk_tags,
                        flagged_quarter |-> match.riskData.flagged_quarter,
                        matched_fields |-> match.matchedFields,
                        confidence_level |-> IF matchType = "single_field"
                                             THEN "LOW" ELSE "MEDIUM",
                        checked_at |-> t],
            compliance |-> [query_id |-> <<"QUERY-", t>>,
                            auditable |-> TRUE,
                            regulation_compliance |-> RegulationCompliance],
            signature |-> sha256([match |-> match.matchedFields,
                                  type |-> matchType,
                                  timestamp |-> t])])

\* matchType is "single_field" or "partial_fields"; a property whose value is
\* undefined is a property the receipt does not have
generatePartialMatchReceipt(match, ud, matchType, t) ==
    LET quality == IF matchType = "single_field" THEN "SINGLE_FIELD" ELSE "PARTIAL_FIELDS"
        base == [match_found |-> TRUE,
                 match_quality |-> quality,
                 flagged_quarter |-> Prop(match.riskData, "flagged_quarter"),
                 matched_fields |-> match.matchedFields,
                 confidence_level |-> IF matchType = "single_field" THEN "LOW" ELSE "MEDIUM"]
        result == IF "risk_tags" \in DOMAIN match.riskData
                  THEN base @@ [risk_tags |-> match.riskData.risk_tags]
                  ELSE base
    IN  Return([provider |-> "MapleCEX",
                query_hash |-> match.hash,
                timestamp |-> t,
                result |-> result,
                compliance |-> [query_id |-> <<"QUERY-", t>>,
                                auditable |-> TRUE,
                                regulation_compliance |-> RegulationCompliance],
                signature |-> sha256([match |-> match.matchedFields,
                                      type |-> matchType,
                                      timestamp |-> t])])

\* generateSunscreenRecommendation: riskTags.includes is reached, and throws on
\* a missing riskTags, unless the status alone decides
generateSunscreenRecommendation(status, riskData) ==
    IF status = "BLOCKED" THEN "REJECT - Extreme compliance risk detected"
    ELSE IF "risk_tags" \notin DOMAIN riskData THEN "TypeError"
    ELSE IF includes(riskData.risk_tags, "Sanctions_List_Hit")
         THEN "REJECT - Extreme compliance risk detected"
    ELSE IF status = "BANNED" \/ includes(riskData.risk_tags, "Velocity_Withdrawals")
         THEN "REJECT - High risk user, manual review required"
    ELSE "MANUAL_REVIEW - Moderate risk flags detected"

\* calculateRiskLevel: riskTags.includes throws on a missing riskTags
calculateRiskLevel(riskData) ==
    IF "risk_tags" \notin DOMAIN riskData THEN "TypeError"
    ELSE IF includes(riskData.risk_tags, "Sanctions_List_Hit") THEN "EXTREME"
    ELSE IF includes(riskData.risk_tags, "High_Velocity_Withdrawals")
            \/ includes(riskData.risk_tags, "Velocity_Withdrawals") THEN "HIGH"
    ELSE IF includes(riskData.risk_tags, "Flagged_KYC") THEN "MODERATE"
    ELSE "LOW"

generateMultiFieldProofReceipt(queryHash, riskData, ud, matchedFields, t) ==
    LET status == Prop(riskData, "status")
        recommendation == generateSunscreenRecommendation(status, riskData)
        riskLevel == calculateRiskLevel(riskData)
    IN  IF recommendation = "TypeError" \/ riskLevel = "TypeError"
        THEN Throw("TypeError")
        ELSE Return(
           [provider |-> "MapleCEX",
            timestamp |-> t,
            query_hash |-> queryHash,
            result |-> [match_found |-> TRUE,
                        risk_tags |-> riskData.risk_tags,
                        flagged_quarter |-> Prop(riskData, "flagged_quarter"),
                        matched_fields |-> matchedFields],
            compliance |-> [query_id |-> <<"QRY-", t>>,
                            regulation_basis |-> "BSA/KYC compliance check",
                            classification |-> "RESTRICTED"],
            signature |-> sha256(<<"MapleCEX", t, queryHash,
                                   [match_found |-> TRUE,
                                    risk_tags |-> riskData.risk_tags,
                                    flagged_quarter |-> Prop(riskData, "flagged_quarter"),
                                    matched_fields |-> matchedFields]>>),
            sunscreen_analysis |-> [recommendation |-> recommendation,
                                    risk_level |-> riskLevel],
            _internal_demo_data |-> [original_user_data |-> ud,
                                     internal_case_id |-> Prop(riskData, "internal_case_id"),
                                     internal_status |-> status,
                                     reported_quarter |-> Prop(riskData, "flagged_quarter"),
                                     matched_user_data |-> riskData.user_data]])

generateCleanUserReceipt(hash, riskData, ud, matchedFields, t) ==
    LET result == [match_found |-> TRUE,
                   match_quality |-> "CLEAN",
                   status |-> "USER_CLEAR",
                   matched_fields |-> matchedFields,
                   case_id |-> Prop(riskData, "internal_case_id"),
                   compliance_status |-> Prop(riskData, "status")]
    IN  Return([provider |-> "MapleCEX",
                query_hash |-> hash,
                timestamp |-> t,
                result |-> result,
                compliance |-> [query_id |-> <<"QUERY-", t>>,
                                auditable |-> TRUE,
                                regulation_compliance |-> RegulationCompliance],
                signature |-> sha256(<<"MapleCEX", t, hash, result>>)])

\* the timestamp is read when the hash of the query has arrived
generateNoMatchReceipt(queryHash, ud, table, tAfter) ==
    LET result == [match_found |-> FALSE,
                   match_quality |-> "NO_MATCH",
                   status |-> "UNKNOWN_USER",
                   searched_fields |-> searchedFields(ud)]
    IN  Return([provider |-> "MapleCEX",
                query_hash |-> queryHash,
                timestamp |-> tAfter,
                result |-> result,
                compliance |-> [query_id |-> <<"QUERY-", tAfter>>,
                                auditable |-> TRUE,
                                regulation_compliance |-> RegulationCompliance],
                signature |-> sha256(<<"MapleCEX", tAfter, queryHash, result>>),
                sunscreen_analysis |->
                    [recommendation |-> "APPROVE - No risk flags detected in partner network",
                     risk_level |-> "CLEAN"],
                _internal_demo_data |-> [original_user_data |-> ud,
                                         total_records_checked |-> Len(table)]])

----------------------------------------------------------------------------
(* CryptographicProofSystem: classification *)

RECURSIVE totalStrength(_)
totalStrength(ms) ==
    IF ms = <<>> THEN 0 ELSE Head(ms).matchStrength + totalStrength(Tail(ms))

\* the keys of identityFieldsByRecord: the email of every candidate that
\* matched on email or on document
identityRecordEmails(ms) ==
    { Prop(ms[i].riskData.user_data, "email") :
        i \in { j \in 1..Len(ms) : includes(ms[j].matchedFields, "email")
                                   \/ includes(ms[j].matchedFields, "document") } }

\* the fields some candidate matched
fieldsCovered(ms) ==
    { f \in {"email", "phone", "country", "document"} :
        \E i \in 1..Len(ms) : includes(ms[i].matchedFields, f) }

\* detectCrossContamination with a CASE 2 that counts each matched field
\* once, however many candidates matched it
detectCrossContamination_DistinctFields(ms, ud, logicalFieldCount) ==
    IF Len(ms) < 2 THEN FALSE
    ELSE IF ms[1].matchStrength = logicalFieldCount THEN FALSE
    ELSE IF Cardinality(identityRecordEmails(ms)) > 1 THEN TRUE
    ELSE IF Len(ms) > 1 /\ logicalFieldCount >= 2
            /\ Cardinality(fieldsCovered(ms)) > ms[1].matchStrength THEN TRUE
    ELSE Len(SelectSeq(ms, LAMBDA m : m.matchStrength >= 2)) > 1

\* detectCrossContamination without CASE 2 (the total of matched fields)
detectCrossContamination_NoTotal(ms, ud, logicalFieldCount) ==
    IF Len(ms) < 2 THEN FALSE
    ELSE IF ms[1].matchStrength = logicalFieldCount THEN FALSE
    ELSE IF Cardinality(identityRecordEmails(ms)) > 1 THEN TRUE
    ELSE Len(SelectSeq(ms, LAMBDA m : m.matchStrength >= 2)) > 1

\* detectCrossContamination, on the sorted candidates
detectCrossContamination(ms, ud, logicalFieldCount) ==
    IF Len(ms) < 2 THEN FALSE
    ELSE IF ms[1].matchStrength = logicalFieldCount THEN FALSE
    ELSE IF Cardinality(identityRecordEmails(ms)) > 1 THEN TRUE
    ELSE IF Len(ms) > 1 /\ logicalFieldCount >= 2
            /\ totalStrength(ms) > ms[1].matchStrength THEN TRUE
    ELSE Len(SelectSeq(ms, LAMBDA m : m.matchStrength >= 2)) > 1

\* PRIORITY 1 of validateMultiFieldConsistency: every logical field matched
allFieldsMatch(strongestMatch, logicalFieldCount) ==
    Len(strongestMatch.matchedFields) = logicalFieldCount

\* the clean test written as !riskData.risk_tags: an empty array is truthy
isCleanUser_Falsy(riskData) == "risk_tags" \notin DOMAIN riskData

\* riskData.risk_tags && riskData.risk_tags.length === 0
isCleanUser(riskData) ==
    "risk_tags" \in DOMAIN riskData /\ Len(riskData.risk_tags) = 0

\* validateMultiFieldConsistency reporting a conflict as soon as any candidate,
\* not the strongest one, has the conflict flag
validateMultiFieldConsistency_AnyConflict(ms, ud, logicalFieldCount, table, t, tAfter) ==
    LET strongestMatch == ms[1]
        conflicting == { k \in 1..Len(ms) : ms[k].hasConflicts }
        firstConflicting == CHOOSE k \in conflicting : \A n \in conflicting : k <= n
    IN  IF allFieldsMatch(strongestMatch, logicalFieldCount)
        THEN IF isCleanUser(strongestMatch.riskData)
             THEN generateCleanUserReceipt(strongestMatch.hash, strongestMatch.riskData,
                                           ud, strongestMatch.matchedFields, t)
             ELSE generateMultiFieldProofReceipt(strongestMatch.hash,
                                                 strongestMatch.riskData, ud,
                                                 strongestMatch.matchedFields, t)
        ELSE IF conflicting # {}
        THEN generateConflictedMatchReceipt(ms[firstConflicting], ud, t)
        ELSE IF detectCrossContamination(ms, ud, logicalFieldCount)
        THEN generateAmbiguousMatchReceipt(ms, ud, t, tAfter)
        ELSE generatePartialMatchReceipt(strongestMatch, ud, "partial_fields", t)

\* validateMultiFieldConsistency without PRIORITY 2, the conflict test on the
\* strongest candidate
validateMultiFieldConsistency_NoConflictCheck(ms, ud, logicalFieldCount, table, t, tAfter) ==
    LET strongestMatch == ms[1]
    IN  IF allFieldsMatch(strongestMatch, logicalFieldCount)
        THEN IF isCleanUser(strongestMatch.riskData)
             THEN generateCleanUserReceipt(strongestMatch.hash, strongestMatch.riskData,
                                           ud, strongestMatch.matchedFields, t)
             ELSE generateMultiFieldProofReceipt(strongestMatch.hash,
                                                 strongestMatch.riskData, ud,
                                                 strongestMatch.matchedFields, t)
        ELSE IF detectCrossContamination(ms, ud, logicalFieldCount)
        THEN generateAmbiguousMatchReceipt(ms, ud, t, tAfter)
        ELSE generatePartialMatchReceipt(strongestMatch, ud, "partial_fields", t)

\* validateMultiFieldConsistency, on the sorted candidates
validateMultiFieldConsistency(ms, ud, logicalFieldCount, table, t, tAfter) ==
    LET strongestMatch == ms[1]
    IN  IF allFieldsMatch(strongestMatch, logicalFieldCount)
        THEN IF isCleanUser(strongestMatch.riskData)
             THEN generateCleanUserReceipt(strongestMatch.hash, strongestMatch.riskData,
                                           ud, strongestMatch.matchedFields, t)
             ELSE generateMultiFieldProofReceipt(strongestMatch.hash,
                                                 strongestMatch.riskData, ud,
                                                 strongestMatch.matchedFields, t)
        ELSE IF strongestMatch.hasConflicts
        THEN generateConflictedMatchReceipt(strongestMatch, ud, t)
        ELSE IF detectCrossContamination(ms, ud, logicalFieldCount)
        THEN generateAmbiguousMatchReceipt(ms, ud, t, tAfter)
        ELSE generatePartialMatchReceipt(strongestMatch, ud, "partial_fields", t)

\* analyzeMatches: sorts the candidates and picks the receipt
analyzeMatches(potentialMatches, ud, logicalFieldCount, table, t, tAfter) ==
    IF Len(potentialMatches) = 0
    THEN generateNoMatchReceipt(sha256(ud), ud, table, tAfter)
    ELSE LET ms == sortByStrength(potentialMatches)
         IN  IF logicalFieldCount = 1
             THEN generatePartialMatchReceipt(ms[1], ud, "single_field", t)
             ELSE IF logicalFieldCount > 1
             THEN validateMultiFieldConsistency(ms, ud, logicalFieldCount, table, t, tAfter)
             ELSE generateNoMatchReceipt(sha256(ud), ud, table, tAfter)

\* performMultiFieldRiskQuery: t is the clock when the call starts, tAfter the
\* clock when its first hash has arrived
performMultiFieldRiskQuery(ud, table, t, tAfter) ==
    analyzeMatches(potentialMatchesOf(ud, table), ud, countLogicalFields(ud),
                   table, t, tAfter)

----------------------------------------------------------------------------
(* The classifier runs: one call of performMultiFieldRiskQuery on a table   *)
(* and a query drawn from the bounded sets                                  *)

TableSet == { EntriesOf(recs) : recs \in SeqsUpTo(RiskRecords, MaxRecords) }

TypeOK ==
    /\ pc \in {"call", "done", "page"}
    /\ clock \in 0..MaxClock

\* window.currentQueryData before the first receipt is displayed
NoCurrentQuery == [userData |-> "<undefined>", proofReceipt |-> "<undefined>"]

\* the progress indicator at rest: status 'Ready', no 'processing' class, no
\* active step
Idle == [status |-> "Ready", processing |-> FALSE, steps |-> {}]

InitClassify ==
    /\ mapleCEX_HashDatabase \in TableSet
    /\ userData \in QuerySet
    /\ pc = "call"
    /\ outcome = Throw("pending")
    /\ clock = 1
    /\ calls = <<>>
    /\ queryAuditLog = <<>>
    /\ complianceAuditLog = <<>>
    /\ dateString = NoDate
    /\ timezoneOffset = 0
    /\ currentQueryData = NoCurrentQuery
    /\ progressIndicator = Idle
    /\ timers = <<>>

\* the call, from entry to the receipt it returns or the exception it throws
Classify ==
    /\ pc = "call"
    /\ outcome' = performMultiFieldRiskQuery(userData, mapleCEX_HashDatabase, clock, clock)
    /\ pc' = "done"
    /\ UNCHANGED <<mapleCEX_HashDatabase, userData, clock, calls,
                   queryAuditLog, complianceAuditLog, dateString,
                   timezoneOffset,
                   currentQueryData, progressIndicator, timers>>

NextClassify == Classify

SpecClassify == InitClassify /\ [][NextClassify]_vars

----------------------------------------------------------------------------
(* The classifier runs on tables with malformed entries: entries without    *)
(* user_data, without risk_tags, or with identity properties missing         *)

AlexChen ==
    [email |-> "alex.chen@gmail.com", phone |-> "+1-555-0123",
     country |-> "United States",
     document_type |-> "Passport", document_number |-> "US123456789"]

MalformedRecords ==
    { NoUserDataRecord,
      \* no risk_tags
      [user_data |-> AlexChen, flagged_quarter |-> "Q4 2023", status |-> "BANNED",
       internal_case_id |-> "RISK-2023-1247"],
      [user_data |-> AlexChen, flagged_quarter |-> "Q4 2023", status |-> "BLOCKED",
       internal_case_id |-> "SANCTIONS-2023-0892"],
      \* identity properties missing
      RiskDataOf([email |-> "alex.chen@gmail.com"], FlaggedProfile),
      RiskDataOf([phone |-> "+1-555-0123", country |-> "United States"], CleanProfile),
      \* both
      [user_data |-> [phone |-> "+1-555-0123",
                      document_type |-> "Passport", document_number |-> "US123456789"],
       status |-> "UNDER_REVIEW"],
      \* well formed
      RiskDataOf(AlexChen, FlaggedProfile),
      RiskDataOf([AlexChen EXCEPT !.email = "different-user@example.com",
                                  !.phone = "+1-555-9999"], FlaggedProfile) }

MalformedTableSet == { EntriesOf(recs) : recs \in SeqsUpTo(MalformedRecords, MaxRecords) }

InitMalformed ==
    /\ mapleCEX_HashDatabase \in MalformedTableSet
    /\ userData \in QuerySet
    /\ pc = "call"
    /\ outcome = Throw("pending")
    /\ clock = 1
    /\ calls = <<>>
    /\ queryAuditLog = <<>>
    /\ complianceAuditLog = <<>>
    /\ dateString = NoDate
    /\ timezoneOffset = 0
    /\ currentQueryData = NoCurrentQuery
    /\ progressIndicator = Idle
    /\ timers = <<>>

SpecMalformed == InitMalformed /\ [][NextClassify]_vars

----------------------------------------------------------------------------
(* The page: handleUserQuery, the two audit logs and decryptAuditEntry,     *)
(* over the table the script defines                                        *)

\* mapleCEX_HashDatabase, cut down to three of its entries: alex.chen, the
\* entry that holds the same passport, and a clean user
ReferenceTable ==
    EntriesOf(<<
        RiskDataOf(AlexChen, FlaggedProfile),
        RiskDataOf([email |-> "different-user@example.com", phone |-> "+1-555-9999",
                    country |-> "United States",
                    document_type |-> "Passport", document_number |-> "US123456789"],
                   [risk_tags |-> <<"Identity_Theft_Suspected">>,
                    flagged_quarter |-> "Q3 2024", status |-> "UNDER_INVESTIGATION",
                    internal_case_id |-> "IDENTITY-2024-0789"]),
        RiskDataOf([email |-> "clean.user@legitimate.com", phone |-> "+1-555-0100",
                    country |-> "Mexico",
                    document_type |-> "National ID", document_number |-> "MX999888777"],
                   CleanProfile) >>)

NoQuery == [email |-> "", phone |-> "", country |-> "", doc_type |-> "", doc_number |-> ""]

\* what the form is filled with: a query for a full match, for a single-field
\* match and for no match
FormQueries ==
    { [NoQuery EXCEPT !.email = "alex.chen@gmail.com", !.phone = "+1-555-0123"],
      [NoQuery EXCEPT !.doc_type = "passport", !.doc_number = "US123456789"],
      [NoQuery EXCEPT !.email = "clean-user@example.com"] }

\* logQueryForAudit keeps the last 10 entries, logComplianceAudit the last 100
QueryAuditLogLimit == 10
ComplianceAuditLogLimit == 100

\* a log that is never shortened
unshiftCapped_NoPop(log, entry, limit) == <<entry>> \o log

\* Array.prototype.unshift, then pop when the log is longer than its limit
unshiftCapped(log, entry, limit) ==
    LET longer == <<entry>> \o log
    IN  IF Len(longer) > limit THEN SubSeq(longer, 1, Len(longer) - 1) ELSE longer

\* the entry logQueryForAudit builds
queryEntryOf(ud, proofReceipt) ==
    [id |-> proofReceipt.compliance.query_id,
     timestamp |-> proofReceipt.timestamp,
     queryingPartner |-> "CoinFlex Exchange"]

\* the entry logComplianceAudit builds; x || null keeps a truthy x
auditEntryOf(ud, proofReceipt) ==
    LET orNull(x) == IF Truthy(x) THEN x ELSE "null"
    IN  [id |-> proofReceipt.compliance.query_id,
         timestamp |-> proofReceipt.timestamp,
         cryptographic_signature |-> proofReceipt.signature,
         search_details |-> [email |-> orNull(Prop(ud, "email")),
                             phone |-> orNull(Prop(ud, "phone")),
                             country |-> orNull(Prop(ud, "country")),
                             document_type |-> orNull(Prop(ud, "doc_type")),
                             document_number |-> orNull(Prop(ud, "doc_number"))],
         original_query_data |-> ud,
         original_response |-> proofReceipt,
         audit_trail_verified |-> TRUE]

\* entry.isDecrypted || false
isDecrypted(entry) == "isDecrypted" \in DOMAIN entry /\ entry.isDecrypted

\* complianceAuditLog.find(e => e.id === entryId): the index, 0 when none
findEntry(log, entryId) ==
    IF \E i \in 1..Len(log) : log[i].id = entryId
    THEN CHOOSE i \in 1..Len(log) :
            log[i].id = entryId /\ \A j \in 1..(i - 1) : log[j].id # entryId
    ELSE 0

\* the receipts whose first await comes before the clock is read again: the
\* no-match receipt hashes the query before it takes its timestamp, the
\* ambiguous receipt between its timestamp and its query id
hashesQueryFirst(matches, ud, table) ==
    LET o == analyzeMatches(matches, ud, countLogicalFields(ud), table, 0, 0)
    IN  o.kind = "return"
        /\ Prop(o.receipt.result, "match_quality") \in {"NO_MATCH", "AMBIGUOUS"}

\* showLoadingState: what it does at once
showLoadingState == [status |-> "Processing...", processing |-> TRUE, steps |-> {}]

\* the status texts the timers of showLoadingState set
StepText == <<"Encrypting query...", "Coordinating partners...", "Generating proof...">>

\* the body of the k-th timer of showLoadingState
activateStep(indicator, k) ==
    [indicator EXCEPT !.status = StepText[k], !.steps = @ \cup {k}]

\* displayProofReceipt: what it does to the indicator at once ('Complete' with
\* a check mark, the 'processing' class removed)
displayProofReceipt(indicator) ==
    [indicator EXCEPT !.status = "Complete", !.processing = FALSE]

\* the body of the 3000 ms timer of displayProofReceipt
resetIndicator(indicator) ==
    [indicator EXCEPT !.status = "Ready", !.steps = {}]

Init ==
    /\ mapleCEX_HashDatabase = ReferenceTable
    /\ userData = NoQuery
    /\ pc = "page"
    /\ outcome = Throw("pending")
    /\ clock = 0
    /\ calls = <<>>
    /\ queryAuditLog = <<>>
    /\ complianceAuditLog = <<>>
    /\ dateString = NoDate
    /\ timezoneOffset = 0
    /\ currentQueryData = NoCurrentQuery
    /\ progressIndicator = Idle
    /\ timers = <<>>

\* time passes
Tick ==
    /\ clock < MaxClock
    /\ clock' = clock + 1
    /\ UNCHANGED <<mapleCEX_HashDatabase, userData, pc, outcome, calls,
                   queryAuditLog, complianceAuditLog, dateString,
                   timezoneOffset,
                   currentQueryData, progressIndicator, timers>>

\* handleUserQuery up to await simulateAPICall(): the form holds a query that
\* passes validation
Submit(q) ==
    /\ pc = "page"
    /\ Len(calls) < MaxQueries
    /\ calls' = Append(calls, [userData |-> q, pc |-> "delay", submitted |-> clock,
                               steps |-> 0,
                               matches |-> <<>>, t |-> 0, tAfter |-> 0,
                               outcome |-> Throw("pending")])
    /\ progressIndicator' = showLoadingState
    /\ UNCHANGED <<mapleCEX_HashDatabase, userData, pc, outcome, clock,
                   queryAuditLog, complianceAuditLog, dateString,
                   timezoneOffset, currentQueryData, timers>>

\* one of the timers of showLoadingState (200, 800 and 1400 ms) has fired:
\* the next step of call i becomes active.  Timers fire in the order of their
\* due times, so the same step of every earlier call has fired before
StepTimer(i) ==
    /\ calls[i].pc = "delay"
    /\ calls[i].steps < 3
    /\ clock > calls[i].submitted
    /\ \A j \in 1..(i - 1) : calls[j].pc # "delay" \/ calls[j].steps > calls[i].steps
    /\ calls' = [calls EXCEPT ![i].steps = @ + 1]
    /\ progressIndicator' = activateStep(progressIndicator, calls[i].steps + 1)
    /\ UNCHANGED <<mapleCEX_HashDatabase, userData, pc, outcome, clock,
                   queryAuditLog, complianceAuditLog, dateString,
                   timezoneOffset, currentQueryData, timers>>

\* the 1500 ms timer of simulateAPICall has fired, after the three step
\* timers of the call and after the 1500 ms timers of the calls submitted
\* before it: performMultiFieldRiskQuery runs up to its first await; the
\* candidates are collected and the receipt is chosen
Perform(i) ==
    /\ calls[i].pc = "delay"
    /\ clock > calls[i].submitted
    /\ calls[i].steps = 3
    /\ \A j \in 1..(i - 1) : calls[j].pc # "delay"
    /\ LET ms == potentialMatchesOf(calls[i].userData, mapleCEX_HashDatabase)
       IN  calls' = [calls EXCEPT
                ![i].matches = ms,
                ![i].submitted = 0,
                ![i].t = clock,
                ![i].pc = IF hashesQueryFirst(ms, calls[i].userData, mapleCEX_HashDatabase)
                          THEN "hashing" ELSE "signing"]
    /\ UNCHANGED <<mapleCEX_HashDatabase, userData, pc, outcome, clock,
                   queryAuditLog, complianceAuditLog, dateString,
                   timezoneOffset,
                   currentQueryData, progressIndicator, timers>>

\* the hash of the query has arrived: the clock is read again
Hashed(i) ==
    /\ calls[i].pc = "hashing"
    /\ calls' = [calls EXCEPT ![i].tAfter = clock, ![i].pc = "signing"]
    /\ UNCHANGED <<mapleCEX_HashDatabase, userData, pc, outcome, clock,
                   queryAuditLog, complianceAuditLog, dateString,
                   timezoneOffset,
                   currentQueryData, progressIndicator, timers>>

\* the signature has arrived and the receipt is returned to handleUserQuery,
\* which logs it in both logs and displays it; an exception goes to the catch
\* block: nothing is logged and showError leaves the indicator as it is
Deliver(i) ==
    /\ calls[i].pc = "signing"
    /\ LET ud == calls[i].userData
           o == analyzeMatches(calls[i].matches, ud, countLogicalFields(ud),
                               mapleCEX_HashDatabase, calls[i].t, calls[i].tAfter)
       IN  /\ calls' = [calls EXCEPT ![i].pc = "done", ![i].outcome = o,
                                     ![i].matches = <<>>, ![i].t = 0, ![i].tAfter = 0]
           /\ IF o.kind = "return"
              THEN /\ queryAuditLog' = unshiftCapped(queryAuditLog,
                                          queryEntryOf(ud, o.receipt), QueryAuditLogLimit)
                   /\ complianceAuditLog' = unshiftCapped(complianceAuditLog,
                                          auditEntryOf(ud, o.receipt), ComplianceAuditLogLimit)
                   /\ progressIndicator' = displayProofReceipt(progressIndicator)
                   /\ timers' = Append(timers, [submittedBefore |-> Len(calls)])
                   /\ currentQueryData' = [userData |-> ud, proofReceipt |-> o.receipt,
                                           isDecrypted |-> FALSE]
              ELSE UNCHANGED <<queryAuditLog, complianceAuditLog, progressIndicator,
                               timers, currentQueryData>>
    /\ UNCHANGED <<mapleCEX_HashDatabase, userData, pc, outcome, clock,
                   dateString, timezoneOffset>>

\* the oldest 3000 ms timer of displayProofReceipt has fired.  The 1500 ms
\* timer of a call submitted before the timer was set is due earlier
ResetTimer ==
    /\ timers # <<>>
    /\ \A j \in 1..Head(timers).submittedBefore : calls[j].pc # "delay"
    /\ progressIndicator' = resetIndicator(progressIndicator)
    /\ timers' = Tail(timers)
    /\ UNCHANGED <<mapleCEX_HashDatabase, userData, pc, outcome, clock, calls,
                   queryAuditLog, complianceAuditLog, dateString,
                   timezoneOffset, currentQueryData>>

\* a decrypt that sets the mark on the table entry the receipt was issued for
DecryptAuditEntry_MarksRecord(entryId) ==
    /\ \E k \in 1..Len(complianceAuditLog) :
          complianceAuditLog[k].id = entryId /\ ~isDecrypted(complianceAuditLog[k])
    /\ LET k == findEntry(complianceAuditLog, entryId)
           hash == complianceAuditLog[k].original_response.query_hash
       IN  /\ complianceAuditLog' =
                  [complianceAuditLog EXCEPT ![k] = [isDecrypted |-> TRUE] @@ @]
           /\ mapleCEX_HashDatabase' =
                  [n \in 1..Len(mapleCEX_HashDatabase) |->
                      IF mapleCEX_HashDatabase[n].hash = hash
                      THEN [mapleCEX_HashDatabase[n] EXCEPT
                                !.riskData = [isDecrypted |-> TRUE] @@ @]
                      ELSE mapleCEX_HashDatabase[n]]
    /\ UNCHANGED <<userData, pc, outcome, clock, calls, queryAuditLog,
                   dateString, timezoneOffset,
                   currentQueryData, progressIndicator, timers>>

\* decryptAuditEntry(entryId), from the button of an entry not yet decrypted
DecryptAuditEntry(entryId) ==
    /\ \E k \in 1..Len(complianceAuditLog) :
          complianceAuditLog[k].id = entryId /\ ~isDecrypted(complianceAuditLog[k])
    /\ LET k == findEntry(complianceAuditLog, entryId)
       IN  complianceAuditLog' =
               [complianceAuditLog EXCEPT ![k] = [isDecrypted |-> TRUE] @@ @]
    /\ UNCHANGED <<mapleCEX_HashDatabase, userData, pc, outcome, clock,
                   calls, queryAuditLog, dateString, timezoneOffset,
                   currentQueryData, progressIndicator, timers>>

Next ==
    \/ Tick
    \/ \E q \in FormQueries : Submit(q)
    \/ \E i \in 1..Len(calls) : StepTimer(i)
    \/ \E i \in 1..Len(calls) : Perform(i)
    \/ \E i \in 1..Len(calls) : Hashed(i)
    \/ \E i \in 1..Len(calls) : Deliver(i)
    \/ ResetTimer
    \/ \E k \in 1..Len(complianceAuditLog) : DecryptAuditEntry(complianceAuditLog[k].id)

Spec == Init /\ [][Next]_vars

----------------------------------------------------------------------------
(* dateToQuarter called on a date string, in an environment of some         *)
(* timezone                                                                 *)

\* the dates of the test 'Date to quarter conversion should preserve privacy'
TestDates ==
    { DateStringOf(2023, 12, 10, 16), DateStringOf(2023, 11, 22, 9),
      DateStringOf(2023, 10, 5, 12) }

\* the exact_flagged_date values of the table
TableDates ==
    TestDates \cup { DateStringOf(2024, 8, 15, 10), DateStringOf(2023, 5, 20, 18),
                     DateStringOf(2024, 2, 10, 14) }

\* the dates above, and the first and last day of every month of two years,
\* early, at noon and late in the day
DateStrings ==
    TableDates \cup
    { d \in { DateStringOf(y, m, dd, h) :
                y \in {2023, 2024}, m \in 1..12, dd \in {1, 28, 29, 30, 31},
                h \in {0, 12, 23} } :
        d.day \in {1, daysInMonth(d.year, d.month)} }

\* timezones from UTC-12 to UTC+14
TimezoneOffsets == {-12, -5, 0, 1, 14}

InitQuarter ==
    /\ mapleCEX_HashDatabase = ReferenceTable
    /\ userData = NoQuery
    /\ pc = "call"
    /\ outcome = Throw("pending")
    /\ clock = 0
    /\ calls = <<>>
    /\ queryAuditLog = <<>>
    /\ complianceAuditLog = <<>>
    /\ dateString \in DateStrings
    /\ timezoneOffset \in TimezoneOffsets
    /\ currentQueryData = NoCurrentQuery
    /\ progressIndicator = Idle
    /\ timers = <<>>

\* proofSystem.dateToQuarter(dateString)
DateToQuarter ==
    /\ pc = "call"
    /\ outcome' = Return(dateToQuarter(dateString, timezoneOffset))
    /\ pc' = "done"
    /\ UNCHANGED <<mapleCEX_HashDatabase, userData, clock, calls,
                   queryAuditLog, complianceAuditLog, dateString,
                   timezoneOffset,
                   currentQueryData, progressIndicator, timers>>

NextQuarter == DateToQuarter

SpecQuarter == InitQuarter /\ [][NextQuarter]_vars

----------------------------------------------------------------------------
(* The classifier on tables whose records combine document types and        *)
(* numbers freely, queried with document types in several spellings          *)

\* records of one country and phone; a number may be held under either type
DocumentRecords ==
    { RiskDataOf([email |-> e, phone |-> "+1-555-0123", country |-> "United States",
                  document_type |-> dt, document_number |-> dn],
                 ProfileOf([document_number |-> dn])) :
        e \in Emails, dt \in {"Passport", "National ID"},
        dn \in {"US123456789", "MX999888777"} }

DocumentTableSet ==
    { EntriesOf(recs) : recs \in SeqsUpTo(DocumentRecords, MaxRecords) }

\* queries of an email and a document, either part of which may be left out
DocumentQueries ==
    { [NoQuery EXCEPT !.email = e, !.doc_type = dt, !.doc_number = dn] :
        e \in {"", "alex.chen@gmail.com"},
        dt \in {"", "passport", "Passport", "PASSPORT", "national id"},
        dn \in {"", "US123456789", "MX999888777"} }

InitDocument ==
    /\ mapleCEX_HashDatabase \in DocumentTableSet
    /\ userData \in DocumentQueries
    /\ pc = "call"
    /\ outcome = Throw("pending")
    /\ clock = 1
    /\ calls = <<>>
    /\ queryAuditLog = <<>>
    /\ complianceAuditLog = <<>>
    /\ dateString = NoDate
    /\ timezoneOffset = 0
    /\ currentQueryData = NoCurrentQuery
    /\ progressIndicator = Idle
    /\ timers = <<>>

SpecDocument == InitDocument /\ [][NextClassify]_vars

----------------------------------------------------------------------------
(* Queries handled one after the other, each submitted when the page has   *)
(* finished with the one before: the logs up to and beyond their limits    *)

\* the number of submissions in a run, and the number of leading submissions
\* for which the form is filled freely
MaxHandled == 103
MaxVaried == 3

\* validateFormBeforeSubmission on the values of the form: a document type
\* and a document number come together and some field is filled.  The forms
\* drawn here have a well-formed email and phone and a document number of
\* three characters or more, so those checks of the function always pass
validateFormBeforeSubmission(form) ==
    LET hasDocType == form.doc_type # ""
        hasDocNumber == form.doc_number # ""
    IN  /\ ~(hasDocType /\ ~hasDocNumber)
        /\ ~(~hasDocType /\ hasDocNumber)
        /\ \/ form.email # ""
           \/ form.phone # ""
           \/ form.country # ""
           \/ hasDocType /\ hasDocNumber

\* the forms submitted: one that fully matches the first record, one that
\* matches no record, one with a document type and no document number
FullMatchForm == [NoQuery EXCEPT !.email = "alex.chen@gmail.com", !.phone = "+1-555-0123"]
NoMatchForm == [NoQuery EXCEPT !.email = "clean-user@example.com"]
AuditForms == { FullMatchForm, NoMatchForm, [NoQuery EXCEPT !.doc_type = "passport"] }

\* the table of the script, and the same table with a first record that has
\* no risk_tags, on which the receipt of a full match throws
AuditTables ==
    { ReferenceTable,
      [ReferenceTable EXCEPT ![1].riskData =
          [k \in DOMAIN ReferenceTable[1].riskData \ {"risk_tags"} |->
              ReferenceTable[1].riskData[k]]] }

InitAudit ==
    /\ mapleCEX_HashDatabase \in AuditTables
    /\ userData = NoQuery
    /\ pc = "page"
    /\ outcome = Throw("pending")
    /\ clock = 0
    /\ calls = <<>>
    /\ queryAuditLog = <<>>
    /\ complianceAuditLog = <<>>
    /\ dateString = NoDate
    /\ timezoneOffset = 0
    /\ currentQueryData = NoCurrentQuery
    /\ progressIndicator = Idle
    /\ timers = <<>>

\* handleUserQuery from the click to the last of its timers, with no other
\* submission in between.  A form that fails validation changes nothing on
\* the page; otherwise the delay of simulateAPICall passes, the receipt is
\* stamped with the clock after it, logged in both logs and displayed, and
\* the indicator is reset; an exception is shown and nothing is logged
HandleUserQuery(form) ==
    /\ pc = "page"
    /\ Len(calls) < MaxHandled
    /\ Len(calls) >= MaxVaried => form = NoMatchForm
    /\ IF ~validateFormBeforeSubmission(form)
       THEN /\ calls' = Append(calls, [userData |-> form, pc |-> "rejected",
                                       outcome |-> Throw("rejected")])
            /\ UNCHANGED <<clock, queryAuditLog, complianceAuditLog,
                           currentQueryData, progressIndicator>>
       ELSE LET o == performMultiFieldRiskQuery(form, mapleCEX_HashDatabase,
                                               clock + 1, clock + 1)
                loading == activateStep(activateStep(activateStep(
                               showLoadingState, 1), 2), 3)
            IN  /\ clock' = clock + 1
                /\ calls' = Append(calls, [userData |-> form, pc |-> "done",
                                           outcome |-> o])
                /\ IF o.kind = "return"
                   THEN /\ queryAuditLog' = unshiftCapped(queryAuditLog,
                                queryEntryOf(form, o.receipt), QueryAuditLogLimit)
                        /\ complianceAuditLog' = unshiftCapped(complianceAuditLog,
                                auditEntryOf(form, o.receipt), ComplianceAuditLogLimit)
                        /\ progressIndicator' =
                                resetIndicator(displayProofReceipt(loading))
                        /\ currentQueryData' = [userData |-> form,
                                                proofReceipt |-> o.receipt,
                                                isDecrypted |-> FALSE]
                   ELSE /\ progressIndicator' = loading
                        /\ UNCHANGED <<queryAuditLog, complianceAuditLog,
                                       currentQueryData>>
    /\ UNCHANGED <<mapleCEX_HashDatabase, userData, pc, outcome, dateString,
                   timezoneOffset, timers>>

NextAudit == \E form \in AuditForms : HandleUserQuery(form)

SpecAudit == InitAudit /\ [][NextAudit]_vars

----------------------------------------------------------------------------
(* The analysis Sunscreen adds to a receipt, for a record of any status    *)
(* and risk tags                                                            *)

\* the longest risk_tags drawn
MaxTags == 2

\* the statuses of the records of the script
Statuses == {"BANNED", "BLOCKED", "UNDER_REVIEW", "UNDER_INVESTIGATION", "CLEAN"}

\* the tags the two analyses test, and one they do not
RiskTags ==
    {"Sanctions_List_Hit", "Velocity_Withdrawals", "High_Velocity_Withdrawals",
     "Flagged_KYC", "Suspicious_Patterns"}

\* a one-record table: the identity of the first record of the script with
\* any status and any tags
SunscreenTableSet ==
    { EntriesOf(<<RiskDataOf(AlexChen,
                             [risk_tags |-> tags, flagged_quarter |-> "Q4 2023",
                              status |-> status,
                              internal_case_id |-> "RISK-2023-1247"])>>) :
        tags \in SeqsUpTo(RiskTags, MaxTags), status \in Statuses }

\* queries that match the record on every field they supply
SunscreenQueries ==
    { [email |-> "alex.chen@gmail.com", phone |-> "+1-555-0123", country |-> "",
       doc_type |-> "", doc_number |-> ""],
      [email |-> "alex.chen@gmail.com", phone |-> "", country |-> "",
       doc_type |-> "", doc_number |-> ""] }

InitSunscreen ==
    /\ mapleCEX_HashDatabase \in SunscreenTableSet
    /\ userData \in SunscreenQueries
    /\ pc = "call"
    /\ outcome = Throw("pending")
    /\ clock = 1
    /\ calls = <<>>
    /\ queryAuditLog = <<>>
    /\ complianceAuditLog = <<>>
    /\ dateString = NoDate
    /\ timezoneOffset = 0
    /\ currentQueryData = NoCurrentQuery
    /\ progressIndicator = Idle
    /\ timers = <<>>

SpecSunscreen == InitSunscreen /\ [][NextClassify]_vars

----------------------------------------------------------------------------
(* The legacy email-only query on any table *)

\* performRiskQuery: the query object has the email as its only property
performRiskQuery(userEmail, table, t, tAfter) ==
    LET ud == [email |-> userEmail]
    IN  performMultiFieldRiskQuery(ud, table, t, tAfter)

\* the emails of the tests of the proof system, an email of the records and
\* the empty string
UserEmails == Emails \cup {"clean-user@example.com", ""}

InitEmail ==
    /\ mapleCEX_HashDatabase \in TableSet
    /\ userData \in { [email |-> e] : e \in UserEmails }
    /\ pc = "call"
    /\ outcome = Throw("pending")
    /\ clock = 1
    /\ calls = <<>>
    /\ queryAuditLog = <<>>
    /\ complianceAuditLog = <<>>
    /\ dateString = NoDate
    /\ timezoneOffset = 0
    /\ currentQueryData = NoCurrentQuery
    /\ progressIndicator = Idle
    /\ timers = <<>>

\* proofSystem.performRiskQuery(userEmail), from entry to the receipt
PerformRiskQuery ==
    /\ pc = "call"
    /\ outcome' = performRiskQuery(userData.email, mapleCEX_HashDatabase, clock, clock)
    /\ pc' = "done"
    /\ UNCHANGED <<mapleCEX_HashDatabase, userData, clock, calls,
                   queryAuditLog, complianceAuditLog, dateString,
                   timezoneOffset,
                   currentQueryData, progressIndicator, timers>>

NextEmail == PerformRiskQuery

SpecEmail == InitEmail /\ [][NextEmail]_vars

----------------------------------------------------------------------------
(* Vocabulary of the claims, stated on the query and the table and not on   *)
(* the candidates the code builds                                           *)

AsSet(seq) == { seq[i] : i \in 1..Len(seq) }

\* the logical fields a query supplies
Supplied(q) ==
    { f \in {"email", "phone", "country"} : f \in DOMAIN q /\ q[f] # "" }
    \cup (IF Truthy(Prop(q, "doc_type")) /\ Truthy(Prop(q, "doc_number"))
          THEN {"document"} ELSE {})

\* the raw properties of a query that hold a value
PopulatedKeys(q) == { k \in DOMAIN q : q[k] # "" }

\* record rd holds the value the query supplies for logical field f
Agrees(q, rd, f) ==
    /\ "user_data" \in DOMAIN rd
    /\ CASE f = "email" -> Prop(rd.user_data, "email") = q.email
         [] f = "phone" -> Prop(rd.user_data, "phone") = q.phone
         [] f = "country" ->
                toLowerCase(Prop(rd.user_data, "country")) = toLowerCase(q.country)
         [] f = "document" ->
                /\ toLowerCase(Prop(rd.user_data, "document_type")) = toLowerCase(q.doc_type)
                /\ Prop(rd.user_data, "document_number") = q.doc_number

\* the supplied logical fields on which record rd agrees with the query
Shared(q, rd) == { f \in Supplied(q) : Agrees(q, rd, f) }

Table == mapleCEX_HashDatabase
Rows == 1..Len(mapleCEX_HashDatabase)
RowShared(i) == Shared(userData, mapleCEX_HashDatabase[i].riskData)

Returned == pc = "done" /\ outcome.kind = "return"
Result == outcome.receipt.result
Quality == Prop(outcome.receipt.result, "match_quality")

\* the receipt variants
IsFullMatch == Result.match_found /\ "match_quality" \notin DOMAIN Result
IsCleanMatch == Result.match_found /\ Quality = "CLEAN"
IsPartialMatch == Result.match_found /\ Quality \in {"SINGLE_FIELD", "PARTIAL_FIELDS"}
IsUnmatched == ~Result.match_found /\ Quality = "NO_MATCH"
IsConflicted == ~Result.match_found /\ Quality = "CONFLICTED"
IsAmbiguous == ~Result.match_found /\ Quality = "AMBIGUOUS"

\* the first row, in table order, that shares a field with the query
FirstSharing == CHOOSE i \in Rows : RowShared(i) # {} /\ \A j \in 1..(i - 1) : RowShared(j) = {}

----------------------------------------------------------------------------
(* C1 *)

\* C1: a query with two or more logical fields that some record matches on
\* every supplied field gets a receipt with match_found = true, issued for a
\* record that matches every supplied field, whose matched_fields are exactly
\* the supplied logical fields, and whose quality is never CONFLICTED,
\* AMBIGUOUS or PARTIAL_FIELDS, whatever other records share single fields.
C1_CompleteMatchWins ==
    (/\ pc = "done"
     /\ Cardinality(Supplied(userData)) >= 2
     /\ \E i \in Rows : RowShared(i) = Supplied(userData))
    => /\ outcome.kind = "return"
       /\ Result.match_found
       /\ AsSet(Result.matched_fields) = Supplied(userData)
       /\ Len(Result.matched_fields) = Cardinality(Supplied(userData))
       /\ Quality \notin {"CONFLICTED", "AMBIGUOUS", "PARTIAL_FIELDS"}
       /\ \E i \in Rows : /\ RowShared(i) = Supplied(userData)
                          /\ outcome.receipt.query_hash = Table[i].hash

\* a complete match on all four fields while an earlier record shares one
\* field with the query
C1_Witness ==
    /\ Returned
    /\ Supplied(userData) = {"email", "phone", "country", "document"}
    /\ Len(Table) = 2
    /\ RowShared(1) # {} /\ RowShared(1) # Supplied(userData)
    /\ RowShared(2) = Supplied(userData)
    /\ Result.match_found

----------------------------------------------------------------------------
(* C2 *)

\* C2 as stated: whenever one record agrees with the query on every supplied
\* logical field (one field or more) and no other record shares a field, the
\* receipt is a FullMatch, or a CleanMatch when the record has no risk tags,
\* with matched fields covering every supplied field.
C2_Original ==
    \A i \in Rows :
        (/\ pc = "done"
         /\ Supplied(userData) # {}
         /\ RowShared(i) = Supplied(userData)
         /\ \A j \in Rows \ {i} : RowShared(j) = {})
        => /\ outcome.kind = "return"
           /\ IF Table[i].riskData.risk_tags = <<>> THEN IsCleanMatch ELSE IsFullMatch
           /\ AsSet(Result.matched_fields) = Supplied(userData)

\* C2 amended: the statement holds for queries with two or more logical
\* fields; with exactly one logical field the receipt is a PartialMatch
\* (SINGLE_FIELD, confidence LOW) for that record, matched on that field.
C2_Amended ==
    \A i \in Rows :
        (/\ pc = "done"
         /\ Supplied(userData) # {}
         /\ RowShared(i) = Supplied(userData)
         /\ \A j \in Rows \ {i} : RowShared(j) = {})
        => /\ outcome.kind = "return"
           /\ outcome.receipt.query_hash = Table[i].hash
           /\ AsSet(Result.matched_fields) = Supplied(userData)
           /\ IF Cardinality(Supplied(userData)) >= 2
              THEN IF Table[i].riskData.risk_tags = <<>> THEN IsCleanMatch ELSE IsFullMatch
              ELSE /\ IsPartialMatch
                   /\ Quality = "SINGLE_FIELD"
                   /\ Result.confidence_level = "LOW"

\* a clean record alone agrees with a query of two fields
C2_Witness ==
    /\ Returned
    /\ Cardinality(Supplied(userData)) >= 2
    /\ Len(Table) = 2
    /\ RowShared(2) = Supplied(userData)
    /\ RowShared(1) = {}
    /\ Table[2].riskData.risk_tags = <<>>
    /\ IsCleanMatch

----------------------------------------------------------------------------
(* C3 *)

\* C3: the receipt is NO_MATCH (match_found = false, the populated query
\* properties listed as searched_fields) exactly when no record shares a
\* supplied logical field with the query; the call returns and does not throw,
\* in particular for a query with no populated field.
C3_UnmatchedIffNoRecordShares ==
    pc = "done"
    => /\ outcome.kind = "return"
       /\ (Quality = "NO_MATCH") <=> (\A i \in Rows : RowShared(i) = {})
       /\ (Quality = "NO_MATCH")
            => /\ ~Result.match_found
               /\ AsSet(Result.searched_fields) = PopulatedKeys(userData)
       /\ (PopulatedKeys(userData) = {}) => IsUnmatched

\* a populated query against a table none of whose records shares a field
C3_Witness ==
    /\ Returned
    /\ Len(Table) = 2
    /\ Cardinality(Supplied(userData)) >= 2
    /\ IsUnmatched
    /\ Len(Result.searched_fields) >= 2

----------------------------------------------------------------------------
(* C6 *)

\* C6: a query with exactly one logical field that at least one record shares
\* gets a PartialMatch of confidence LOW issued for the earliest such record in
\* table order, never AMBIGUOUS or CONFLICTED, however many records share it.
C6_SingleFieldIsPartialLow ==
    (/\ pc = "done"
     /\ Cardinality(Supplied(userData)) = 1
     /\ \E i \in Rows : RowShared(i) # {})
    => /\ outcome.kind = "return"
       /\ IsPartialMatch
       /\ Result.confidence_level = "LOW"
       /\ AsSet(Result.matched_fields) = Supplied(userData)
       /\ outcome.receipt.query_hash = Table[FirstSharing].hash
       /\ Result.risk_tags = Table[FirstSharing].riskData.risk_tags

\* two records hold the passport the query asks for, the second one with a
\* different profile
C6_Witness ==
    /\ Returned
    /\ Supplied(userData) = {"document"}
    /\ Len(Table) = 2
    /\ RowShared(1) = {"document"} /\ RowShared(2) = {"document"}
    /\ Table[1].riskData.user_data.email # Table[2].riskData.user_data.email
    /\ outcome.receipt.query_hash = Table[1].hash

----------------------------------------------------------------------------
(* C4 *)

\* the code's three conflict checks, read on the first record in table order
\* that shares a field with a query of two logical fields, when that record
\* shares exactly one of them
FirstSharingConflicts ==
    LET rec == Table[FirstSharing].riskData.user_data
        one == RowShared(FirstSharing)
    IN  \/ /\ Supplied(userData) = {"email", "phone"}
           /\ one = {"email"} /\ Truthy(Prop(rec, "phone"))
        \/ /\ Supplied(userData) = {"email", "phone"}
           /\ one = {"phone"} /\ Truthy(Prop(rec, "email"))
        \/ /\ Supplied(userData) = {"email", "document"}
           /\ one = {"document"} /\ Truthy(Prop(rec, "email"))

\* two supplied fields, each shared by a different record, none sharing both
SplitAcrossTwoRecords ==
    /\ pc = "done"
    /\ Cardinality(Supplied(userData)) = 2
    /\ \E i, j \in Rows : i # j /\ RowShared(i) # {} /\ RowShared(j) # {}
                          /\ RowShared(i) \cup RowShared(j) = Supplied(userData)
    /\ \A k \in Rows : RowShared(k) # Supplied(userData)

\* C4 as stated: a query of exactly two logical fields, each matching a
\* different record and no record matching both, is Ambiguous whatever the
\* table order.
C4_Original == SplitAcrossTwoRecords => (outcome.kind = "return" /\ IsAmbiguous)

\* C4 amended: such a query is Ambiguous unless the first record in table
\* order that shares a field has an internal conflict by the code's checks
\* (email/phone pair: it holds a populated value for the field it does not
\* share; email/document pair: it shares the document and holds a populated
\* email); then the receipt is Conflicted, issued for that record.
C4_Amended ==
    SplitAcrossTwoRecords
    => /\ outcome.kind = "return"
       /\ IF FirstSharingConflicts
          THEN /\ IsConflicted
               /\ outcome.receipt.query_hash = Table[FirstSharing].hash
               /\ AsSet(Result.matched_fields) = RowShared(FirstSharing)
          ELSE /\ IsAmbiguous
               /\ Result.potential_matches = Cardinality({ k \in Rows : RowShared(k) # {} })

\* phone and country, held by two different records: Ambiguous
C4_Witness ==
    /\ Returned
    /\ Supplied(userData) = {"phone", "country"}
    /\ Len(Table) = 2
    /\ RowShared(1) = {"country"} /\ RowShared(2) = {"phone"}
    /\ IsAmbiguous

----------------------------------------------------------------------------
(* C5 *)

\* C5: whenever the query's email is that of a record whose phone differs from
\* the populated phone of the query, the receipt is Conflicted with email among
\* the matched fields and phone among the conflicting fields.
C5_EmailMatchPhoneDiffers ==
    \A i \in Rows :
        (/\ pc = "done"
         /\ Truthy(userData.email) /\ Truthy(userData.phone)
         /\ Agrees(userData, Table[i].riskData, "email")
         /\ Prop(Table[i].riskData.user_data, "phone") # userData.phone)
        => /\ outcome.kind = "return"
           /\ IsConflicted
           /\ "email" \in AsSet(Result.matched_fields)
           /\ "phone" \in AsSet(Result.conflicted_fields)

----------------------------------------------------------------------------
(* C9 *)

\* the table with the entries that have no user_data removed
WithUserData(table) == SelectSeq(table, LAMBDA e : "user_data" \in DOMAIN e.riskData)

\* what a call tells its caller about the match
Classification(o) ==
    IF o.kind = "return"
    THEN [kind |-> "return", query_hash |-> o.receipt.query_hash,
          result |-> o.receipt.result, timestamp |-> o.receipt.timestamp,
          compliance |-> o.receipt.compliance, signature |-> o.receipt.signature]
    ELSE [kind |-> "throw", error |-> o.error]

\* C9: entries without user_data are passed over: the call says of the table
\* what it says of the table with those entries removed, so the entries after
\* such an entry are still examined.
C9_MissingUserDataSkipped ==
    pc = "done"
    => Classification(outcome)
       = Classification(performMultiFieldRiskQuery(userData, WithUserData(Table),
                                                   clock, clock))

\* the first entry has no user_data and the receipt is issued for the second
C9_Witness ==
    /\ Returned
    /\ Len(Table) = 2
    /\ "user_data" \notin DOMAIN Table[1].riskData
    /\ RowShared(2) # {}
    /\ outcome.receipt.query_hash = Table[2].hash

----------------------------------------------------------------------------
(* C8 *)

\* C8: every call of performMultiFieldRiskQuery ends by returning a receipt,
\* also on tables whose entries lack user_data, risk_tags or identity
\* properties: no exception leaves the call.
C8_NoExceptionPropagates == pc = "done" => outcome.kind = "return"

----------------------------------------------------------------------------
(* C7 *)

\* the calls of the page that have returned a receipt
ReturnedCalls == { i \in 1..Len(calls) : calls[i].pc = "done" /\ calls[i].outcome.kind = "return" }

\* a receipt without the three properties taken from the clock
WithoutClock(receipt) ==
    [receipt EXCEPT !.timestamp = 0, !.compliance.query_id = 0, !.signature = 0]

----------------------------------------------------------------------------
(* C10 *)

\* C10: no step of the page (a query of any outcome, in any interleaving with
\* other queries, the logging of its receipt, a decrypt) changes the table:
\* keys, order, identity values and risk tags stay as the script defines them.
C10_TableNeverModified == mapleCEX_HashDatabase = ReferenceTable

\* two queries were answered in overlap and an audit entry was decrypted
C10_Witness ==
    /\ ReturnedCalls = {1, 2}
    /\ calls[2].outcome.receipt.timestamp <= calls[1].outcome.receipt.timestamp
    /\ calls[1].userData # calls[2].userData
    /\ Len(queryAuditLog) = 2
    /\ \E k \in 1..Len(complianceAuditLog) : isDecrypted(complianceAuditLog[k])

----------------------------------------------------------------------------
(* C11 *)

\* C11: the label dateToQuarter returns is the one it returns in an
\* environment whose local time is UTC: it is the quarter of the UTC year and
\* UTC month of the instant, whatever the timezone of the environment.
C11_QuarterIndependentOfTimezone ==
    (pc = "done" /\ outcome.kind = "return" /\ dateString # NoDate)
    => outcome.receipt = dateToQuarter(dateString, 0)

----------------------------------------------------------------------------
(* C12 *)

\* the quarter of a month, as the claim tabulates it
QuarterOfMonth(m) ==
    CASE m \in 1..3 -> "Q1" [] m \in 4..6 -> "Q2" [] m \in 7..9 -> "Q3" [] m \in 10..12 -> "Q4"

\* C12: a date string of month m and year Y is labelled with the quarter of m
\* and with Y; the three test dates of October, November and December 2023
\* are labelled Q4 2023.
C12_QuarterOfMonthAndYear ==
    (pc = "done" /\ outcome.kind = "return" /\ dateString # NoDate)
    => /\ outcome.receipt = <<QuarterOfMonth(dateString.month), dateString.year>>
       /\ dateString \in TestDates => outcome.receipt = <<"Q4", 2023>>

----------------------------------------------------------------------------
(* C13 *)

\* the properties a shared result may have: risk tags, flagged quarter, the
\* names of the matched fields, and metadata of the match
SharedResultFields ==
    { "risk_tags", "flagged_quarter", "matched_fields",
      "match_found", "match_quality", "confidence_level", "potential_matches",
      "conflicted_fields", "searched_fields", "reason", "status",
      "verification_notes" }

\* what the partner keeps internal about its records
InternalCaseIds == { Prop(Table[i].riskData, "internal_case_id") : i \in Rows }
InternalStatuses == { Prop(Table[i].riskData, "status") : i \in Rows }

\* C13: the result object of a receipt, whatever the outcome, has only
\* properties for risk tags, flagged quarter, matched-field names and match
\* metadata, and none of them carries a record's internal case id or internal
\* status.
C13_ResultSharesNoInternalData ==
    Returned
    => /\ DOMAIN Result \subseteq SharedResultFields
       /\ \A k \in DOMAIN Result \cap {"status", "case_id", "compliance_status"} :
             /\ Result[k] \notin InternalCaseIds
             /\ Result[k] \notin InternalStatuses

----------------------------------------------------------------------------
(* C14 *)

\* the entry logQueryForAudit adds for a call that has returned
QueryEntryOfCall(i) == queryEntryOf(calls[i].userData, calls[i].outcome.receipt)

\* two returned calls whose receipts were stamped at the same readings of the
\* clock
SameClockReadings(i, j) ==
    /\ calls[i].outcome.receipt.timestamp = calls[j].outcome.receipt.timestamp
    /\ calls[i].outcome.receipt.compliance.query_id[2]
         = calls[j].outcome.receipt.compliance.query_id[2]

\* C14: the entries queryAuditLog receives for two queries stamped at the same
\* clock value are identical (same id, timestamp and queryingPartner),
\* whatever the two queries supplied and however they were classified.
C14_QueryLogEntryHidesQuery ==
    \A i, j \in ReturnedCalls :
        SameClockReadings(i, j) => QueryEntryOfCall(i) = QueryEntryOfCall(j)

----------------------------------------------------------------------------
(* C15 *)

\* the records that hold the email of an email-only query
RowsWithEmail ==
    { i \in Rows : /\ "user_data" \in DOMAIN Table[i].riskData
                   /\ Truthy(userData.email)
                   /\ Prop(Table[i].riskData.user_data, "email") = userData.email }

\* C15: an email-only query whose email is that of a record returns a receipt
\* with match_found = true whose result has the risk_tags of that record and
\* a status equal to the status of that record.
C15_EmailQueryCarriesTagsAndStatus ==
    (pc = "done" /\ RowsWithEmail # {})
    => /\ outcome.kind = "return"
       /\ Result.match_found
       /\ \E i \in RowsWithEmail :
             /\ Result.risk_tags = Table[i].riskData.risk_tags
             /\ Prop(Result, "status") = Prop(Table[i].riskData, "status")

----------------------------------------------------------------------------
(* C16 *)

\* the recommendations that contain 'APPROVE'
ApproveRecommendations == { "APPROVE - No risk flags detected in partner network" }

\* C16: an email-only query whose email is in no record returns a receipt
\* with match_found = false whose result.recommendation contains 'APPROVE'.
C16_UnknownEmailIsApproved ==
    (pc = "done" /\ Truthy(userData.email) /\ RowsWithEmail = {})
    => /\ outcome.kind = "return"
       /\ ~Result.match_found
       /\ Prop(Result, "recommendation") \in ApproveRecommendations

----------------------------------------------------------------------------
(* C17 *)

\* every entry of a log is still an entry, unchanged, of the later log
KeepsEntries(log, later) ==
    \A k \in 1..Len(log) : \E n \in 1..Len(later) : later[n] = log[k]

\* C17: the two audit logs are append-only: no step (a later query, a decrypt
\* with the render that follows it) removes or modifies an entry either log
\* already holds.
C17_AuditLogsAppendOnly ==
    [][ /\ KeepsEntries(queryAuditLog, queryAuditLog')
        /\ KeepsEntries(complianceAuditLog, complianceAuditLog') ]_vars

----------------------------------------------------------------------------
(* C18 *)

\* the table with its entries in the opposite order
Reversed(table) == [n \in 1..Len(table) |-> table[Len(table) + 1 - n]]

\* the variant of a receipt
Variant(receipt) == Prop(receipt.result, "match_quality")

\* C18: whatever the variant of the receipt, the content that is signed covers
\* the complete result object: two receipts of the same variant, issued at the
\* same time for the same query (here on the table and on the table in the
\* opposite order), that differ in a field of the result (for example
\* risk_tags) have different signed content, hence different signatures.
C18_SignatureCoversResult ==
    Returned
    => LET other == performMultiFieldRiskQuery(userData, Reversed(Table), clock, clock)
       IN  (/\ other.kind = "return"
            /\ Variant(other.receipt) = Variant(outcome.receipt)
            /\ other.receipt.result # outcome.receipt.result)
           => other.receipt.signature # outcome.receipt.signature

----------------------------------------------------------------------------
(* C19 *)

\* record rd holds a value for logical field f
Populated(rd, f) ==
    CASE f = "document" -> /\ Truthy(Prop(rd.user_data, "document_type"))
                           /\ Truthy(Prop(rd.user_data, "document_number"))
      [] OTHER -> Truthy(Prop(rd.user_data, f))

\* record rd holds, for a supplied logical field it does not share with the
\* query, a value that disagrees with the query
Disagrees(q, rd) ==
    \E f \in Supplied(q) \ Shared(q, rd) : Populated(rd, f)

\* the candidates the call has collected
Candidates == potentialMatchesOf(userData, Table)

\* C19: the internal-conflict flag of a candidate is true exactly when its
\* record holds a populated value that disagrees with the query for some
\* other supplied logical field, whichever fields are involved.
C19_ConflictFlagForEveryField ==
    pc = "done"
    => \A k \in 1..Len(Candidates) :
          Candidates[k].hasConflicts <=> Disagrees(userData, Candidates[k].riskData)

----------------------------------------------------------------------------
(* C20 *)

\* the rows that share a field with the query
SharingRows == { i \in Rows : RowShared(i) # {} }

\* the best candidate: most shared fields, the earliest row among equals
BestRow ==
    CHOOSE i \in SharingRows :
        \A j \in SharingRows :
            \/ Cardinality(RowShared(j)) < Cardinality(RowShared(i))
            \/ Cardinality(RowShared(j)) = Cardinality(RowShared(i)) /\ i <= j

\* the internal-conflict flag the code computes for a row
ConflictFlag(i) ==
    detectInternalConflicts(userData, Table[i].riskData,
                            fieldMatchesOf(userData, Table[i].riskData))

\* a query of two or more logical fields that no record matches completely
NoCompleteMatch ==
    /\ pc = "done"
    /\ Cardinality(Supplied(userData)) >= 2
    /\ \A i \in Rows : RowShared(i) # Supplied(userData)

----------------------------------------------------------------------------
(* C21 *)

\* a multi-field query with no complete match, at least one candidate, and no
\* conflict flag on the best candidate
BestCandidateUnconflicted ==
    /\ NoCompleteMatch
    /\ SharingRows # {}
    /\ ~ConflictFlag(BestRow)

\* different records cover different pieces of the query: another candidate
\* shares a field the best candidate does not share
CoversOtherPieces ==
    \E j \in SharingRows \ {BestRow} : ~(RowShared(j) \subseteq RowShared(BestRow))

\* two or more candidates share two or more fields each
SeveralStrongCandidates ==
    Cardinality({ j \in SharingRows : Cardinality(RowShared(j)) >= 2 }) >= 2

\* C21: with no complete match and no conflict on the best candidate, the
\* receipt is Ambiguous exactly when another candidate shares a field the best
\* candidate does not share or when two or more candidates share two or more
\* fields each; otherwise (the other candidates share only fields the best
\* candidate shares too) it is a PartialMatch.
C21_AmbiguousOnlyWhenPiecesDiffer ==
    BestCandidateUnconflicted
    => /\ outcome.kind = "return"
       /\ IF CoversOtherPieces \/ SeveralStrongCandidates
          THEN IsAmbiguous
          ELSE IsPartialMatch

----------------------------------------------------------------------------
(* C22 *)

\* the row the receipt was issued for
ReceiptRow == CHOOSE i \in Rows : Table[i].hash = outcome.receipt.query_hash

----------------------------------------------------------------------------
(* C23 *)

\* the query supplies a document type, a document number
TypeSupplied == userData.doc_type # ""
NumberSupplied == userData.doc_number # ""

\* the fields the code has matched for row i
MatchedFieldsOfRow(i) == AsSet(fieldMatchesOf(userData, Table[i].riskData))

\* the spellings of one document type
TypeSpellings ==
    { {"passport", "Passport", "PASSPORT"}, {"national id", "National ID"} }
SameTypeIgnoringCase(a, b) == \E sp \in TypeSpellings : a \in sp /\ b \in sp

\* row i holds the document of the query: same number, same type up to case
HoldsDocument(i) ==
    /\ Table[i].riskData.user_data.document_number = userData.doc_number
    /\ SameTypeIgnoringCase(Table[i].riskData.user_data.document_type,
                            userData.doc_type)

\* C23: document type and number are one logical field.  It is counted once,
\* and only when the query supplies both; a row is matched on 'document' only
\* when the query supplies both and that row holds both; a query that supplies
\* one of the two is never matched on document and, when it supplies nothing
\* else, is Unmatched.
C23_DocumentIsOneLogicalField ==
    pc = "done"
    => /\ countLogicalFields(userData)
            = Cardinality({ f \in {"email", "phone", "country"} : userData[f] # "" })
              + (IF TypeSupplied /\ NumberSupplied THEN 1 ELSE 0)
       /\ \A i \in Rows :
             "document" \in MatchedFieldsOfRow(i)
             => TypeSupplied /\ NumberSupplied /\ HoldsDocument(i)
       /\ (Returned /\ "matched_fields" \in DOMAIN Result
                    /\ "document" \in AsSet(Result.matched_fields))
             => TypeSupplied /\ NumberSupplied /\ HoldsDocument(ReceiptRow)
       /\ (/\ TypeSupplied # NumberSupplied
           /\ \A f \in {"email", "phone", "country"} : userData[f] = "")
             => Returned /\ IsUnmatched

\* the first record holds the queried number under another type, the second
\* holds the queried document, and the receipt is issued for the second
C23_Witness ==
    /\ Returned
    /\ TypeSupplied /\ NumberSupplied
    /\ Len(Table) = 2
    /\ Table[1].riskData.user_data.document_number = userData.doc_number
    /\ ~HoldsDocument(1)
    /\ HoldsDocument(2)
    /\ "document" \in AsSet(Result.matched_fields)
    /\ ReceiptRow = 2

----------------------------------------------------------------------------
(* C24 *)

\* C24: when the query supplies a document, a row is matched on 'document'
\* whenever it holds the same number and the same type up to letter case
\* ('passport' against a stored 'Passport'), and the document is then among
\* the matched fields of the candidate.
C24_DocumentTypeIgnoresCase ==
    (pc = "done" /\ TypeSupplied /\ NumberSupplied)
    => \A i \in Rows :
          HoldsDocument(i)
          => /\ "document" \in MatchedFieldsOfRow(i)
             /\ \E k \in 1..Len(Candidates) :
                   /\ Candidates[k].hash = Table[i].hash
                   /\ includes(Candidates[k].matchedFields, "document")

\* 'passport' is queried, 'Passport' is stored, and the receipt lists the
\* document among the matched fields
C24_Witness ==
    /\ Returned
    /\ userData.doc_type = "passport"
    /\ Len(Table) = 1
    /\ Table[1].riskData.user_data.document_type = "Passport"
    /\ HoldsDocument(1)
    /\ Result.match_found
    /\ "document" \in AsSet(Result.matched_fields)

----------------------------------------------------------------------------
(* C25 *)

\* every call of the page has returned its receipt
AllReturned == calls # <<>> /\ ReturnedCalls = 1..Len(calls)

\* the call whose entry is the k-th of a log that lists the calls in
\* submission order, newest first
CallAt(k) == Len(calls) - k + 1

\* C25: once the queries of a run have all returned (submitted one after the
\* other or in overlap), window.currentQueryData holds the query submitted
\* last with its receipt, and both audit logs list the queries in submission
\* order, newest first.
C25_LastSubmittedIsDisplayed ==
    AllReturned =>
        /\ currentQueryData.userData = calls[Len(calls)].userData
        /\ currentQueryData.proofReceipt = calls[Len(calls)].outcome.receipt
        /\ Len(complianceAuditLog) = Len(calls)
        /\ \A k \in 1..Len(complianceAuditLog) :
              complianceAuditLog[k].original_response = calls[CallAt(k)].outcome.receipt
        /\ Len(queryAuditLog) = Len(calls)
        /\ \A k \in 1..Len(queryAuditLog) :
              queryAuditLog[k] = QueryEntryOfCall(CallAt(k))

----------------------------------------------------------------------------
(* C26 *)

\* the calls of the page that are in their delay or awaiting a hash
Processing == { i \in 1..Len(calls) : calls[i].pc # "done" }

\* C26 (its second half): while a query is still processing, the indicator
\* does not show 'Ready': no timer left over from an earlier query resets the
\* indicator under a later query.
C26_NoResetWhileProcessing ==
    Processing # {} => progressIndicator.status # "Ready"

----------------------------------------------------------------------------
(* C27 *)

\* the receipts returned so far, newest first
ReceiptsNewestFirst ==
    LET returned == SelectSeq(calls, LAMBDA c : c.pc = "done" /\ c.outcome.kind = "return")
    IN  [k \in 1..Len(returned) |-> returned[Len(returned) - k + 1].outcome.receipt]

Min(a, b) == IF a < b THEN a ELSE b

\* a log holds the most recent receipts, newest first, up to its limit: one
\* entry for each, with the query id and the timestamp of the receipt
HoldsMostRecent(log, limit) ==
    /\ Len(log) = Min(Len(ReceiptsNewestFirst), limit)
    /\ \A k \in 1..Len(log) :
          /\ log[k].id = ReceiptsNewestFirst[k].compliance.query_id
          /\ log[k].timestamp = ReceiptsNewestFirst[k].timestamp

\* C27: after any sequence of queries, queryAuditLog holds the min(n, 10) and
\* complianceAuditLog the min(n, 100) most recently completed queries, newest
\* first, one entry for each query that returned a receipt, with the query id
\* and the timestamp of the receipt; a query rejected by validation or ended
\* by an exception has no entry.
C27_LogsHoldMostRecent ==
    /\ HoldsMostRecent(queryAuditLog, QueryAuditLogLimit)
    /\ HoldsMostRecent(complianceAuditLog, ComplianceAuditLogLimit)

\* more receipts than either log holds, after a form that was rejected and a
\* query that threw
C27_Witness ==
    /\ Len(ReceiptsNewestFirst) > ComplianceAuditLogLimit
    /\ Len(complianceAuditLog) = ComplianceAuditLogLimit
    /\ Len(queryAuditLog) = QueryAuditLogLimit
    /\ \E i \in 1..Len(calls) : calls[i].pc = "rejected"
    /\ \E i \in 1..Len(calls) : calls[i].pc = "done" /\ calls[i].outcome.kind = "throw"

----------------------------------------------------------------------------
(* C28 *)

\* C28: the query ids of the entries of complianceAuditLog are pairwise
\* distinct, so that decryptAuditEntry(id), which marks the first entry with
\* that id, marks the entry whose button was pressed and no other.
C28_QueryIdsDistinct ==
    \A j, k \in 1..Len(complianceAuditLog) :
        j # k => complianceAuditLog[j].id # complianceAuditLog[k].id

----------------------------------------------------------------------------
(* C29 *)

\* the candidates as validateMultiFieldConsistency receives them
SortedCandidates == sortByStrength(Candidates)

\* CASE 1 or CASE 2 of detectCrossContamination already answers true
DecidedBeforeLastCheck ==
    \/ Cardinality(identityRecordEmails(SortedCandidates)) > 1
    \/ totalStrength(SortedCandidates) > SortedCandidates[1].matchStrength

\* C29: a multi-field query is answered PARTIAL_FIELDS only when exactly one
\* record shares a field with it: with no complete match, two or more records
\* sharing a field and no conflict flag on the best candidate the receipt is
\* Ambiguous, and the answer is settled before the check 'two or more
\* candidates with two or more fields' is reached.
C29_PartialOnlyForOneCandidate ==
    /\ Returned /\ Quality = "PARTIAL_FIELDS" => Cardinality(SharingRows) = 1
    /\ BestCandidateUnconflicted /\ Cardinality(SharingRows) >= 2
         => /\ Returned /\ IsAmbiguous
            /\ DecidedBeforeLastCheck

\* an Ambiguous receipt for two candidates of which the second shares only a
\* field the best candidate shares too
C29_Witness ==
    /\ BestCandidateUnconflicted
    /\ Cardinality(SharingRows) = 2
    /\ ~CoversOtherPieces
    /\ ~SeveralStrongCandidates
    /\ Returned /\ IsAmbiguous

----------------------------------------------------------------------------
(* C30 *)

\* the analysis of the receipt returned
Analysis == outcome.receipt.sunscreen_analysis

RejectRecommendations ==
    {"REJECT - Extreme compliance risk detected",
     "REJECT - High risk user, manual review required"}

\* C30: the two analyses of a receipt agree: a risk level of HIGH or EXTREME
\* comes with a REJECT recommendation, and the recommendation 'REJECT -
\* Extreme compliance risk detected' comes with the risk level EXTREME.
C30_AnalysesAgree ==
    (Returned /\ "sunscreen_analysis" \in DOMAIN outcome.receipt)
    => /\ Analysis.risk_level \in {"HIGH", "EXTREME"}
            => Analysis.recommendation \in RejectRecommendations
       /\ Analysis.recommendation = "REJECT - Extreme compliance risk detected"
            => Analysis.risk_level = "EXTREME"

====
